---- MODULE Spec2Model ----
(***************************************************************************)
(* Model of the action scheduler of git-local-devops (src/src/actions.ts): *)
(* selection of the work items of a run (getProjectsToRunActionIn and its  *)
(* helpers) and their execution in priority passes with dependency         *)
(* fan-out, deduplication and cascading skip (actions,                     *)
(* runActionPromiseWrapper, findActionsToSkipAfterFailure), and of the     *)
(* priority sweep runActions / runAction (src/unnamed/part_000).           *)
(*                                                                         *)
(* Optional values of the source (priority?: number, exitCode possibly     *)
(* undefined) are sequences of length at most one: <<>> is undefined,      *)
(* <<n>> is the number n.                                                  *)
(***************************************************************************)
EXTENDS Integers, Sequences, FiniteSets, TLC

VARIABLES
    config,                 \* Config.projects: project name -> its ProjectAction for actionToRun
    declared,               \* the projects whose actions hold actionToRun
    projectPriority,        \* Config.projects: project name -> project.priority
    groupToRun,             \* argument of actions()
    projectsToRun,          \* argument of actions()
    pc,                     \* position of actions(): "start", "running", "done", "threw"
    selected,               \* the work items as getProjectsToRunActionIn returned them
    projectsToRunActionIn,  \* the work items, whose needs the run shrinks (shared with blockedProjects)
    uniquePriorities,       \* the Set of priorities, in its iteration (insertion) order
    pass,                   \* index in uniquePriorities of the current iteration of the for loop
    blockedProjects,        \* sparse array of the blocked work items (project names, Hole when deleted)
    began,                  \* keys registered by ActionOutputPrinter.beganTask
    tasks,                  \* the calls of runActionPromiseWrapper made so far, in call order
    stdoutBuffer,           \* the records returned by actions() or runActions()
    prioRange,              \* runActions: the range returned by getPriorityRange
    currentPrio             \* runActions: the loop variable

vars == <<config, declared, projectPriority, groupToRun, projectsToRun, pc, selected, projectsToRunActionIn, uniquePriorities,
          pass, blockedProjects, began, tasks, stdoutBuffer, prioRange, currentPrio>>

----------------------------------------------------------------------------
(* Bounds of the model *)

\* the priorities set in the configuration range over 1..MaxPriority; a priority of 0 is
\* an action without a priority (action.priority ?? 0)
MaxPriority == 1

\* at most MaxFailures invocations of a run end unsuccessfully
MaxFailures == 2

----------------------------------------------------------------------------
(* Inputs *)

\* the projects of the configuration, in the iteration order of Object.entries(config.projects)
ProjectOrder == <<"a", "b", "c">>

Projects == {ProjectOrder[i] : i \in DOMAIN ProjectOrder}

\* the action asked for; every modelled ProjectAction is the one of this action
actionToRun == "build"

\* the wildcard group
Star == "*"

Groups == {"g", Star}

Undefined == <<>>

OrZero(opt) == IF opt = Undefined THEN 0 ELSE opt[1]

Priorities == {Undefined} \cup {<<n>> : n \in 1..MaxPriority}

\* exit codes of an invocation: 0, non-zero, or undefined when the spawn failed
ExitCodes == {<<0>>, <<1>>, Undefined}

Range(s) == {s[i] : i \in DOMAIN s}

\* the sequence of the elements of S, a set of projects, in configuration order
RECURSIVE InOrder(_, _)
InOrder(S, i) ==
    IF i > Len(ProjectOrder) THEN <<>>
    ELSE (IF ProjectOrder[i] \in S THEN <<ProjectOrder[i]>> ELSE <<>>) \o InOrder(S, i + 1)

NeedsLists == {InOrder(S, 1) : S \in SUBSET Projects}

\* the groups an action defines: the requested one, only the wildcard, or neither (an
\* action defining both is treated by every lookup as one defining the requested group)
GroupSets == {{"g"}, {Star}, {}}

ProjectActions == [priority : Priorities, needs : NeedsLists, groups : GroupSets]

\* q is reachable from p through one or more needs edges of cfg
RECURSIVE Reaches(_, _, _, _)
Reaches(cfg, p, q, n) ==
    /\ n > 0
    /\ \E m \in Range(cfg[p].needs) : m = q \/ Reaches(cfg, m, q, n - 1)

Acyclic(cfg) == \A p \in Projects : ~Reaches(cfg, p, p, Cardinality(Projects))

Configs == {cfg \in [Projects -> ProjectActions] : Acyclic(cfg)}

\* a project name the configuration does not declare
Unknown == "z"

Names == Projects \cup {Unknown}

\* what the optional chaining of the source reads from a project without the action:
\* project.actions[actionToRun]?.groups[g] and ?.needs are undefined
NoAction == [priority |-> Undefined, needs |-> <<>>, groups |-> {}]

----------------------------------------------------------------------------
(* Selection: getProjectsToRunActionIn *)

\* resolveProjectDependencies throws on the work item of project p: a need of the
\* closure names no project (config.projects[need] is undefined and reading its
\* actions is a TypeError), or names a project without the action (neededAction is
\* undefined, the needed item keeps the needs of the needing one, and the recursion
\* on that same need never ends: RangeError of the call stack)
RECURSIVE ClosureThrows(_, _, _, _)
ClosureThrows(cfg, decl, p, n) ==
    \E need \in Range(cfg[p].needs) :
        \/ need \notin Projects
        \/ need \notin decl
        \/ n > 0 /\ ClosureThrows(cfg, decl, need, n - 1)

\* getProjectsToRunActionIn throws instead of returning
SelectionThrows(cfg, decl, g, sel) ==
    \E p \in Projects :
        /\ (g \in cfg[p].groups \/ Star \in cfg[p].groups) /\ p \in sel
        /\ ClosureThrows(cfg, decl, p, Cardinality(Projects))

\* the work item {project, action, group, ...project.actions[actionToRun]} of a direct match
DirectItem(cfg, g, p) ==
    [project |-> p, action |-> actionToRun,
     group |-> IF g \in cfg[p].groups THEN g ELSE Star,
     priority |-> cfg[p].priority, needs |-> cfg[p].needs, groups |-> cfg[p].groups]

\* the two filters and the reduce over Object.entries(config.projects)
RECURSIVE DirectMatches(_, _, _, _)
DirectMatches(cfg, g, sel, i) ==
    IF i > Len(ProjectOrder) THEN <<>>
    ELSE LET p == ProjectOrder[i] IN
         (IF (g \in cfg[p].groups \/ Star \in cfg[p].groups) /\ p \in sel
          THEN <<DirectItem(cfg, g, p)>> ELSE <<>>) \o DirectMatches(cfg, g, sel, i + 1)

\* {...action, project: need, ...neededAction}: the keys neededAction has replace those
\* of the needing item; an undefined priority is a key neededAction does not have, so
\* the priority of the needing item stays
NeededItem(cfg, action, need) ==
    [project |-> need, action |-> action.action, group |-> action.group,
     priority |-> IF cfg[need].priority = Undefined THEN action.priority ELSE cfg[need].priority,
     needs |-> cfg[need].needs, groups |-> cfg[need].groups]

\* The Sets of the source hold object references, and every needed item is a new
\* object: the only element the Set constructor finds twice is `action` itself, which
\* keeps its first place. The Set [action, ...resolve(need k), ...carry] is therefore
\* action, then the items of the last need, ..., then the items of the first need.
RECURSIVE resolveProjectDependencies(_, _), ResolveNeeds(_, _, _)
resolveProjectDependencies(cfg, action) ==
    IF Len(action.needs) > 0
    THEN <<action>> \o ResolveNeeds(cfg, action, Len(action.needs))
    ELSE <<action>>

ResolveNeeds(cfg, action, k) ==
    IF k = 0 THEN <<>>
    ELSE resolveProjectDependencies(cfg, NeededItem(cfg, action, action.needs[k]))
             \o ResolveNeeds(cfg, action, k - 1)

\* the reduce of resolveDependenciesForActions: new Set([...carry, ...resolve(action)])
RECURSIVE ResolveAll(_, _, _)
ResolveAll(cfg, actionsToRun, i) ==
    IF i > Len(actionsToRun) THEN <<>>
    ELSE resolveProjectDependencies(cfg, actionsToRun[i]) \o ResolveAll(cfg, actionsToRun, i + 1)

\* a uniqBy keeping the last item of a project instead of the first
RECURSIVE UniqByProjectKeepingLast(_, _, _)
UniqByProjectKeepingLast(s, i, seen) ==
    IF i > Len(s) THEN <<>>
    ELSE IF \E j \in (i + 1)..Len(s) : s[j].project = s[i].project
         THEN UniqByProjectKeepingLast(s, i + 1, seen)
         ELSE <<s[i]>> \o UniqByProjectKeepingLast(s, i + 1, seen)

\* _.uniqBy(actionsToRun, action => action.project): the first item of a project stays
RECURSIVE UniqByProject(_, _, _)
UniqByProject(s, i, seen) ==
    IF i > Len(s) THEN <<>>
    ELSE IF s[i].project \in seen THEN UniqByProject(s, i + 1, seen)
         ELSE <<s[i]>> \o UniqByProject(s, i + 1, seen \cup {s[i].project})

resolveDependenciesForActions(actionsToRun, cfg, g) ==
    LET all == ResolveAll(cfg, actionsToRun, 1)
        viable == SelectSeq(all, LAMBDA a : g \in a.groups \/ Star \in a.groups)
        bound == [i \in DOMAIN viable |->
                    [viable[i] EXCEPT !.group =
                        IF g \in cfg[viable[i].project].groups THEN g ELSE Star]]
    IN UniqByProject(bound, 1, {})

\* topologicalSortActionGraph (src/graph.ts): the orders of the projects defining the
\* action in which every project comes after the projects it needs
TopologicalOrders(cfg) ==
    {o \in [1..Cardinality(Projects) -> Projects] :
        /\ Range(o) = Projects
        /\ \A i, j \in DOMAIN o : o[j] \in Range(cfg[o[i]].needs) => j < i}

\* the topological order as it is, dependencies before their dependents
Unreversed(s) == s

Reverse(s) == [i \in DOMAIN s |-> s[Len(s) + 1 - i]]

Without(s, x) == SelectSeq(s, LAMBDA e : e # x)

\* the rewiring dropping actionNoGroup from the needs without adding what it needs
RewireDropping(cfg, actionsToRun, actionNoGroup) ==
    [i \in DOMAIN actionsToRun |->
        [actionsToRun[i] EXCEPT !.needs = Without(actionsToRun[i].needs, actionNoGroup)]]

\* the body of the outer forEach of the rewiring: every item needing actionNoGroup gets
\* it replaced by the needs actionNoGroup has in the configuration
RewireOne(cfg, actionsToRun, actionNoGroup) ==
    [i \in DOMAIN actionsToRun |->
        IF actionNoGroup \in Range(actionsToRun[i].needs)
        THEN [actionsToRun[i] EXCEPT
                 !.needs = Without(actionsToRun[i].needs, actionNoGroup) \o cfg[actionNoGroup].needs]
        ELSE actionsToRun[i]]

RECURSIVE Rewire(_, _, _, _)
Rewire(cfg, actionsToRun, noGroup, i) ==
    IF i > Len(noGroup) THEN actionsToRun
    ELSE Rewire(cfg, RewireOne(cfg, actionsToRun, noGroup[i]), noGroup, i + 1)

\* getProjectsToRunActionIn, with the order `topo` returned by topologicalSortActionGraph
getProjectsToRunActionIn(cfg, g, sel, topo) ==
    LET direct == DirectMatches(cfg, g, sel, 1)
        closed == resolveDependenciesForActions(direct, cfg, g)
        noGroup == SelectSeq(Reverse(topo), LAMBDA p : g \notin cfg[p].groups)
    IN Rewire(cfg, closed, noGroup, 1)

----------------------------------------------------------------------------
(* Records and shared state of a run *)

\* the slot of blockedActions left by `delete blockedActions[i]`
Hole == ""

ItemIdx(items, p) == CHOOSE i \in DOMAIN items : items[i].project = p

NeedsOf(items, p) == items[ItemIdx(items, p)].needs

Keys(p, g) == [project |-> p, action |-> actionToRun, group |-> g]

\* the ActionOutput of runAction: {...options.keys, ..., exitCode}
ExecutedRecord(keys, exitCode) ==
    [project |-> keys.project, action |-> keys.action, group |-> keys.group,
     exitCode |-> exitCode, wasSkippedBy |-> Undefined, wasSkippedDuplicated |-> FALSE]

\* {wasSkippedDuplicated: true, ...runActionOpts.keys}
DuplicateRecord(keys) ==
    [project |-> keys.project, action |-> keys.action, group |-> keys.group,
     exitCode |-> Undefined, wasSkippedBy |-> Undefined, wasSkippedDuplicated |-> TRUE]

\* {...actionToSkip, wasSkippedBy: failedProject}
SkippedRecord(item, failedProject) ==
    [project |-> item.project, action |-> item.action, group |-> item.group,
     exitCode |-> Undefined, wasSkippedBy |-> <<failedProject>>, wasSkippedDuplicated |-> FALSE]

\* ActionOutputPrinter.beganTask (src/actions_utils.ts): false when the key already
\* began, and the key is registered
beganTask(keys, registry) ==
    [ok |-> keys \notin registry, began |-> registry \cup {keys}]

----------------------------------------------------------------------------
(* Cascading skip: findActionsToSkipAfterFailure *)

\* delete blockedActions[blockedActions.indexOf(actionToSkip)]; indexOf is -1 when the
\* item is no longer in the array, and then nothing is deleted
DeleteBlocked(blocked, p) ==
    [i \in DOMAIN blocked |-> IF blocked[i] = p THEN Hole ELSE blocked[i]]

\* the cascade naming the project that failed first in the records of every level
RECURSIVE SkipEachNamingRoot(_, _, _, _, _, _)
SkipEachNamingRoot(failedProject, actionsToSkip, i, blocked, items, skipped) ==
    IF i > Len(actionsToSkip) THEN [blocked |-> blocked, skipped |-> skipped]
    ELSE LET actionToSkip == actionsToSkip[i]
             record == SkippedRecord(items[ItemIdx(items, actionToSkip)], failedProject)
             deleted == DeleteBlocked(blocked, actionToSkip)
             dependents ==
                 SelectSeq(deleted, LAMBDA b : b # Hole /\ actionToSkip \in Range(NeedsOf(items, b)))
             below == SkipEachNamingRoot(failedProject, dependents, 1, deleted, items, <<>>)
         IN SkipEachNamingRoot(failedProject, actionsToSkip, i + 1, below.blocked, items,
                               (skipped \o <<record>>) \o below.skipped)

RECURSIVE findActionsToSkipAfterFailure(_, _, _), SkipEach(_, _, _, _, _, _)
findActionsToSkipAfterFailure(failedProject, blocked, items) ==
    LET actionsToSkip ==
            SelectSeq(blocked, LAMBDA b : b # Hole /\ failedProject \in Range(NeedsOf(items, b)))
    IN SkipEach(failedProject, actionsToSkip, 1, blocked, items, <<>>)

\* the forEach over actionsToSkip, from its i-th element on
SkipEach(failedProject, actionsToSkip, i, blocked, items, skipped) ==
    IF i > Len(actionsToSkip) THEN [blocked |-> blocked, skipped |-> skipped]
    ELSE LET actionToSkip == actionsToSkip[i]
             record == SkippedRecord(items[ItemIdx(items, actionToSkip)], failedProject)
             below == findActionsToSkipAfterFailure(
                          actionToSkip, DeleteBlocked(blocked, actionToSkip), items)
         IN SkipEach(failedProject, actionsToSkip, i + 1, below.blocked, items,
                     (skipped \o <<record>>) \o below.skipped)

----------------------------------------------------------------------------
(* runActionPromiseWrapper *)

\* A call of runActionPromiseWrapper is a task: its keys, the task whose completion
\* made the call (0 for the loop of actions), the pass of the loop during which it was
\* made, and its state: "dup" (returned the duplicate record), "running" (runActionFn
\* called, not yet returned), "done" (the callback of runActionFn ran).
Task(keys, parent, k, state) ==
    [keys |-> keys, parent |-> parent, pass |-> k, state |-> state,
     exitCode |-> Undefined, removed |-> <<>>]

\* runActionPromiseWrapper calling runActionFn whatever beganTask answered
WrapperIgnoringBeganTask(keys, parent, k, st) ==
    [began |-> beganTask(keys, st.began).began,
     tasks |-> Append(st.tasks, Task(keys, parent, k, "running"))]

\* the synchronous part of a call: beganTask, and runActionFn when it answered true;
\* st holds the registry and the tasks
runActionPromiseWrapper(keys, parent, k, st) ==
    LET b == beganTask(keys, st.began) IN
    [began |-> b.began,
     tasks |-> Append(st.tasks, Task(keys, parent, k, IF b.ok THEN "running" ELSE "dup"))]

\* calls of runActionPromiseWrapper for a list of keys, in order (the .map of the source)
RECURSIVE CallWrappers(_, _, _, _, _)
CallWrappers(keysList, i, parent, k, st) ==
    IF i > Len(keysList) THEN st
    ELSE CallWrappers(keysList, i + 1, parent, k, runActionPromiseWrapper(keysList[i], parent, k, st))

\* a failure skipping every blocked item, whether it needs the failed project or not
RemoveEveryBlocked(exitCode, project, blocked, items) ==
    IF exitCode = <<0>> THEN [blocked |-> blocked, skipped |-> <<>>]
    ELSE LET left == SelectSeq(blocked, LAMBDA b : b # Hole) IN
         [blocked |-> [i \in DOMAIN blocked |-> Hole],
          skipped |-> [i \in DOMAIN left |->
                          SkippedRecord(items[ItemIdx(items, left[i])], project)]]

\* removedBlockedActions left empty after a failure as after a success
RemoveNothing(exitCode, project, blocked, items) ==
    [blocked |-> blocked, skipped |-> <<>>]

\* res.exitCode === 0 ? [] : findActionsToSkipAfterFailure(res.project, blockedActions)
RemoveBlocked(exitCode, project, blocked, items) ==
    IF exitCode = <<0>> THEN [blocked |-> blocked, skipped |-> <<>>]
    ELSE findActionsToSkipAfterFailure(project, blocked, items)

\* the reduce over blockedActions (holes are not visited): the completed project leaves
\* the needs of every blocked item; an item left without needs is deleted and freed
RECURSIVE FreeBlocked(_, _, _, _, _)
FreeBlocked(project, blocked, items, i, freed) ==
    IF i > Len(blocked) THEN [blocked |-> blocked, items |-> items, freed |-> freed]
    ELSE IF blocked[i] = Hole THEN FreeBlocked(project, blocked, items, i + 1, freed)
    ELSE LET n == ItemIdx(items, blocked[i])
             needs == Without(items[n].needs, project)
             filtered == [items EXCEPT ![n].needs = needs]
         IN IF Len(needs) = 0
            THEN FreeBlocked(project, [blocked EXCEPT ![i] = Hole], filtered, i + 1,
                             Append(freed, blocked[i]))
            ELSE FreeBlocked(project, blocked, filtered, i + 1, freed)

\* no freed item is launched
NoFreedKeys(keys, freed) == <<>>

\* only the first freed item is launched
FirstFreedKeys(keys, freed) ==
    IF freed = <<>> THEN <<>> ELSE <<[keys EXCEPT !.project = freed[1]]>>

\* keys: { ...runActionOpts.keys, project: action.project } for each freed item
FreedKeys(keys, freed) ==
    [i \in DOMAIN freed |-> [keys EXCEPT !.project = freed[i]]]

Children(ts, t) == {c \in DOMAIN ts : ts[c].parent = t}

\* the promise of a call resolved without awaiting the calls it made
ResolvedAlone(ts, t) == ts[t].state \in {"dup", "done"}

\* the promise returned by call t is resolved: it returned the duplicate record, or
\* its callback ran and Promise.all of the calls it made is resolved
RECURSIVE Resolved(_, _)
Resolved(ts, t) ==
    \/ ts[t].state = "dup"
    \/ /\ ts[t].state = "done"
       /\ \A c \in Children(ts, t) : Resolved(ts, c)

\* the array call t resolves to: [res, ...blockedActionsResult, ...removedBlockedActions]
RECURSIVE Output(_, _), OutputOf(_, _, _)
Output(ts, t) ==
    IF ts[t].state = "dup" THEN <<DuplicateRecord(ts[t].keys)>>
    ELSE (<<ExecutedRecord(ts[t].keys, ts[t].exitCode)>> \o OutputOf(ts, t, 1)) \o ts[t].removed

\* the outputs of the calls made by t (t = 0: by the loop of actions in pass k), from
\* call c on, in call order
OutputOf(ts, t, c) ==
    IF c > Len(ts) THEN <<>>
    ELSE (IF ts[c].parent = t THEN Output(ts, c) ELSE <<>>) \o OutputOf(ts, t, c + 1)

----------------------------------------------------------------------------
(* actions *)

\* getUniquePriorities: the Set of action.priority ?? 0, which iterates in insertion order
RECURSIVE getUniquePriorities(_, _, _)
getUniquePriorities(items, i, seen) ==
    IF i > Len(items) THEN <<>>
    ELSE LET priority == OrZero(items[i].priority) IN
         IF priority \in seen THEN getUniquePriorities(items, i + 1, seen)
         ELSE <<priority>> \o getUniquePriorities(items, i + 1, seen \cup {priority})

\* the filter of the loop without its test of the priority
PassFilterAnyPriority(items, priority) ==
    SelectSeq(items, LAMBDA a : Len(a.needs) = 0)

\* the filter of the loop without its test of the needs
PassFilterAnyNeeds(items, priority) ==
    SelectSeq(items, LAMBDA a : OrZero(a.priority) = priority)

\* the filter of one iteration of the loop: the items of the priority that need nothing
PassFilter(items, priority) ==
    SelectSeq(items, LAMBDA a : OrZero(a.priority) = priority /\ Len(a.needs) = 0)

\* the keys of the calls of one iteration: the item's own project, action and group
PassKeys(items, priority) ==
    LET ready == PassFilter(items, priority) IN
    [i \in DOMAIN ready |-> Keys(ready[i].project, ready[i].group)]

\* await Promise.all(runActionPromises) of pass k is over
PassSettled(ts, k) ==
    \A t \in DOMAIN ts : (ts[t].parent = 0 /\ ts[t].pass = k) => Resolved(ts, t)

\* the records pass k pushes to stdoutBuffer, from call c on
RECURSIVE PassOutput(_, _, _)
PassOutput(ts, k, c) ==
    IF c > Len(ts) THEN <<>>
    ELSE (IF ts[c].parent = 0 /\ ts[c].pass = k THEN Output(ts, c) ELSE <<>>)
             \o PassOutput(ts, k, c + 1)

\* one iteration of the for loop up to its await, or the return after the last one
EnterPass(k, items, priorities, st) ==
    IF k > Len(priorities)
    THEN /\ pc' = "done"
         /\ UNCHANGED <<pass, began, tasks>>
    ELSE LET launched == CallWrappers(PassKeys(items, priorities[k]), 1, 0, k, st) IN
         /\ pc' = "running"
         /\ pass' = k
         /\ began' = launched.began
         /\ tasks' = launched.tasks

\* actions() has been called and has not run yet
InitRun ==
    /\ pc = "start"
    /\ selected = <<>>
    /\ projectsToRunActionIn = <<>>
    /\ uniquePriorities = <<>>
    /\ pass = 0
    /\ blockedProjects = <<>>
    /\ began = {}
    /\ tasks = <<>>
    /\ stdoutBuffer = <<>>
    /\ prioRange = [min |-> 0, max |-> 0]
    /\ currentPrio = 0

\* actions.ts reads neither project.priority nor an action a project does not have
\* unless a name of projectsToRun or of a needs list leads to it: the runs of Spec are
\* those over projects that all declare the action and have no priority of their own
Init ==
    /\ config \in Configs
    /\ declared = Projects
    /\ projectPriority = [p \in Projects |-> Undefined]
    /\ groupToRun \in Groups
    /\ projectsToRun \in SUBSET Projects
    /\ InitRun

\* actions() from its call to the first await: selection, priorities, blocked items,
\* and the first iteration of the loop
Start ==
    /\ pc = "start"
    /\ IF SelectionThrows(config, declared, groupToRun, projectsToRun)
       THEN /\ pc' = "threw"
            /\ UNCHANGED <<selected, projectsToRunActionIn, uniquePriorities, blockedProjects,
                           pass, began, tasks>>
       ELSE \E topo \in TopologicalOrders(config) :
         LET items == getProjectsToRunActionIn(config, groupToRun, projectsToRun, topo)
             priorities == getUniquePriorities(items, 1, {})
             blocked == SelectSeq(items, LAMBDA a : Len(a.needs) > 0)
         IN /\ selected' = items
            /\ projectsToRunActionIn' = items
            /\ uniquePriorities' = priorities
            /\ blockedProjects' = [i \in DOMAIN blocked |-> blocked[i].project]
            /\ EnterPass(1, items, priorities, [began |-> began, tasks |-> tasks])
    /\ UNCHANGED <<prioRange, currentPrio, config, declared, projectPriority, groupToRun, projectsToRun, stdoutBuffer>>

Failures(ts) == Cardinality({t \in DOMAIN ts : ts[t].state = "done" /\ ts[t].exitCode # <<0>>})

\* the completion of call t shrinking the needs of the blocked items in place: the
\* needs array an item took from the configuration by the spread is the array of the
\* configuration, which shrinks with it
CompleteInPlace(t, exitCode) ==
    /\ pc = "running"
    /\ tasks[t].state = "running"
    /\ exitCode # <<0>> => Failures(tasks) < MaxFailures
    /\ LET keys == tasks[t].keys
           removed == RemoveBlocked(exitCode, keys.project, blockedProjects, projectsToRunActionIn)
           after == FreeBlocked(keys.project, removed.blocked, projectsToRunActionIn, 1, <<>>)
           finished == [tasks EXCEPT ![t].state = "done", ![t].exitCode = exitCode,
                                     ![t].removed = removed.skipped]
           launched == CallWrappers(FreedKeys(keys, after.freed), 1, t, pass,
                                    [began |-> began, tasks |-> finished])
       IN /\ blockedProjects' = after.blocked
          /\ projectsToRunActionIn' = after.items
          /\ began' = launched.began
          /\ tasks' = launched.tasks
          /\ config' = [p \in Projects |->
                           IF /\ p \in {after.items[i].project : i \in DOMAIN after.items}
                              /\ NeedsOf(projectsToRunActionIn, p) = config[p].needs
                           THEN [config[p] EXCEPT !.needs = NeedsOf(after.items, p)]
                           ELSE config[p]]
    /\ UNCHANGED <<prioRange, currentPrio, declared, projectPriority, groupToRun, projectsToRun, pc, selected, uniquePriorities, pass,
                   stdoutBuffer>>

\* runActionFn of call t returns with exitCode: the callback given to .then, up to its
\* await (finishedTask only updates the printer's display and is left out)
Complete(t, exitCode) ==
    /\ pc = "running"
    /\ tasks[t].state = "running"
    /\ exitCode # <<0>> => Failures(tasks) < MaxFailures
    /\ LET keys == tasks[t].keys
           removed == RemoveBlocked(exitCode, keys.project, blockedProjects, projectsToRunActionIn)
           after == FreeBlocked(keys.project, removed.blocked, projectsToRunActionIn, 1, <<>>)
           finished == [tasks EXCEPT ![t].state = "done", ![t].exitCode = exitCode,
                                     ![t].removed = removed.skipped]
           launched == CallWrappers(FreedKeys(keys, after.freed), 1, t, pass,
                                    [began |-> began, tasks |-> finished])
       IN /\ blockedProjects' = after.blocked
          /\ projectsToRunActionIn' = after.items
          /\ began' = launched.began
          /\ tasks' = launched.tasks
    /\ UNCHANGED <<prioRange, currentPrio, config, declared, projectPriority, groupToRun, projectsToRun, pc, selected, uniquePriorities, pass,
                   stdoutBuffer>>

\* Promise.all of the current pass resolves: its records are pushed and the loop goes on
NextPass ==
    /\ pc = "running"
    /\ PassSettled(tasks, pass)
    /\ stdoutBuffer' = stdoutBuffer \o PassOutput(tasks, pass, 1)
    /\ EnterPass(pass + 1, projectsToRunActionIn, uniquePriorities,
                 [began |-> began, tasks |-> tasks])
    /\ UNCHANGED <<prioRange, currentPrio, config, declared, projectPriority, groupToRun, projectsToRun, selected, projectsToRunActionIn,
                   uniquePriorities, blockedProjects>>

Next ==
    \/ Start
    \/ \E t \in DOMAIN tasks : \E exitCode \in ExitCodes : Complete(t, exitCode)
    \/ NextPass

Spec == Init /\ [][Next]_vars

\* the configurations whose actions all define the requested group "g"
PriorityConfigs == {cfg \in Configs : \A p \in Projects : cfg[p].groups = {"g"}}

\* the runs of group "g" over projects that may have a priority of their own
\* (Project.priority), next to the priority of their action
InitPriority ==
    /\ config \in PriorityConfigs
    /\ declared = Projects
    /\ projectPriority \in [Projects -> Priorities]
    /\ groupToRun = "g"
    /\ projectsToRun \in SUBSET Projects
    /\ InitRun

SpecPriority == InitPriority /\ [][Next]_vars

\* the runs of group "g" in which every continuation that can run does run: actions()
\* starts, every invocation returns (the callback of runActionFn runs), and the await
\* of a settled Promise.all resumes the loop
InitLive ==
    /\ config \in PriorityConfigs
    /\ declared = Projects
    /\ projectPriority = [p \in Projects |-> Undefined]
    /\ groupToRun = "g"
    /\ projectsToRun \in SUBSET Projects
    /\ InitRun

\* ENABLED <<Start>>_vars: actions() has been called and has not run yet (an acyclic
\* configuration has a topological order, and a selection that throws ends the run)
StartEnabled == pc = "start"

\* weak fairness of Start, WF_vars(Start), with its enabling condition written out
FairStart == []<>(~StartEnabled) \/ []<><<Start>>_vars

SpecLive ==
    /\ InitLive
    /\ [][Next]_vars
    /\ FairStart
    /\ WF_vars(\E t \in DOMAIN tasks : \E exitCode \in ExitCodes : Complete(t, exitCode))
    /\ WF_vars(NextPass)

\* cfg with the undeclared name added to the needs of the projects of Z, and without
\* the action in the projects outside decl
WithNames(cfg, Z, decl) ==
    [p \in Projects |->
        IF p \notin decl THEN NoAction
        ELSE [cfg[p] EXCEPT !.needs = IF p \in Z THEN @ \o <<Unknown>> ELSE @]]

\* the runs of group "g" whose projectsToRun and needs lists may name a project that
\* is not declared, or one that does not have the action
InitNames ==
    /\ \E cfg \in PriorityConfigs, Z \in SUBSET Projects, decl \in SUBSET Projects :
          /\ config = WithNames(cfg, Z, decl)
          /\ declared = decl
    /\ projectPriority = [p \in Projects |-> Undefined]
    /\ groupToRun = "g"
    /\ projectsToRun \in SUBSET Names
    /\ InitRun

SpecNames == InitNames /\ [][Next]_vars

----------------------------------------------------------------------------
(* The priority sweep: runActions and runAction (src/unnamed/part_000) *)

\* const priority = action.priority ?? project.priority ?? 0
PriorityOf(cfg, pp, project) ==
    IF cfg[project].priority # Undefined THEN cfg[project].priority[1] ELSE OrZero(pp[project])

\* runAction without the return on another priority
SpawnsAtAnyPriority(cfg, decl, pp, keys, prio) ==
    /\ keys.project \in Projects
    /\ keys.project \in decl
    /\ keys.group \in cfg[keys.project].groups

\* runAction takes none of its four returns and spawns the command: the project is in
\* the configuration, has the action, the action has the group, and the priority of
\* the iteration is the one of the action
Spawns(cfg, decl, pp, keys, prio) ==
    /\ keys.project \in Projects
    /\ keys.project \in decl
    /\ keys.group \in cfg[keys.project].groups
    /\ prio = PriorityOf(cfg, pp, keys.project)

\* a call of runActionFn: it returned undefined, or its command is running
SweepCall(keys, prio, spawned) ==
    [keys |-> keys, currentPrio |-> prio, state |-> IF spawned THEN "running" ELSE "returned"]

\* Object.keys(config.projects).map(project => runActionFn(...)) of one iteration
RECURSIVE SweepCalls(_, _, _, _, _, _)
SweepCalls(cfg, decl, pp, g, prio, i) ==
    IF i > Len(ProjectOrder) THEN <<>>
    ELSE LET keys == Keys(ProjectOrder[i], g) IN
         <<SweepCall(keys, prio, Spawns(cfg, decl, pp, keys, prio))>>
             \o SweepCalls(cfg, decl, pp, g, prio, i + 1)

\* getPriorityRange (src/priority.ts) is not part of the sources: it may return any range
PriorityRanges == [min : 0..MaxPriority, max : 0..MaxPriority]

\* the test of the for loop and, when it holds, the body up to its await
EnterIteration(prio, range) ==
    /\ currentPrio' = prio
    /\ IF prio > range.max
       THEN pc' = "done" /\ UNCHANGED tasks
       ELSE /\ pc' = "running"
            /\ tasks' = tasks \o SweepCalls(config, declared, projectPriority, groupToRun, prio, 1)

\* the action of a project without the action, and the actions runActions tells apart:
\* a priority or none, the requested group or another one (needs are not read)
SweepActions ==
    {NoAction} \cup {a \in ProjectActions : a.needs = <<>> /\ a.groups # {}}

InitSweep ==
    /\ config \in [Projects -> SweepActions]
    /\ declared = {p \in Projects : config[p] # NoAction}
    /\ projectPriority \in [Projects -> Priorities]
    /\ groupToRun \in Groups
    /\ projectsToRun = {}
    /\ InitRun

\* runActions from its call to the first await
runActions ==
    /\ pc = "start"
    /\ \E range \in PriorityRanges :
          /\ prioRange' = range
          /\ EnterIteration(range.min, range)
    /\ UNCHANGED <<config, declared, projectPriority, groupToRun, projectsToRun, selected,
                   projectsToRunActionIn, uniquePriorities, pass, blockedProjects, began,
                   stdoutBuffer>>

\* the command of call t ends, with or without an error (an error is only logged):
\* runAction returns its record
SpawnReturns(t) ==
    /\ pc = "running"
    /\ tasks[t].state = "running"
    /\ tasks' = [tasks EXCEPT ![t].state = "done"]
    /\ UNCHANGED <<config, declared, projectPriority, groupToRun, projectsToRun, pc, selected,
                   projectsToRunActionIn, uniquePriorities, pass, blockedProjects, began,
                   stdoutBuffer, prioRange, currentPrio>>

\* Promise.all of the iteration is settled
IterationSettled ==
    \A t \in DOMAIN tasks : tasks[t].currentPrio = currentPrio => tasks[t].state # "running"

\* .filter((p) => p) of the results of the iteration, in the order of the calls
SweepRecords(ts, prio) ==
    LET returned == SelectSeq(ts, LAMBDA c : c.currentPrio = prio /\ c.state = "done")
    IN [i \in DOMAIN returned |-> returned[i].keys]

\* the await of an iteration resumes: its records are pushed, currentPrio++
NextIteration ==
    /\ pc = "running"
    /\ IterationSettled
    /\ stdoutBuffer' = stdoutBuffer \o SweepRecords(tasks, currentPrio)
    /\ EnterIteration(currentPrio + 1, prioRange)
    /\ UNCHANGED <<config, declared, projectPriority, groupToRun, projectsToRun, selected,
                   projectsToRunActionIn, uniquePriorities, pass, blockedProjects, began,
                   prioRange>>

NextSweep ==
    \/ runActions
    \/ \E t \in DOMAIN tasks : SpawnReturns(t)
    \/ NextIteration

SpecSweep == InitSweep /\ [][NextSweep]_vars

----------------------------------------------------------------------------
(* What a run did, read from its state *)

SelectedProjects == {selected[i].project : i \in DOMAIN selected}

\* the needs list of project p as selection returned it
SelectedNeeds(p) == Range(NeedsOf(selected, p))

SelectedPriority(p) == OrZero(selected[ItemIdx(selected, p)].priority)

\* the calls of the Action Invoker (runActionFn) made so far
Invocations(ts) == {t \in DOMAIN ts : ts[t].state # "dup"}

InvocationsOf(ts, p) == {t \in Invocations(ts) : ts[t].keys.project = p}

Succeeded(ts, p) == \E t \in InvocationsOf(ts, p) : ts[t].state = "done" /\ ts[t].exitCode = <<0>>

Failed(ts, p) == \E t \in InvocationsOf(ts, p) : ts[t].state = "done" /\ ts[t].exitCode # <<0>>

RecordsOf(p) == {i \in DOMAIN stdoutBuffer : stdoutBuffer[i].project = p}

SkipRecordsOf(p) == {i \in RecordsOf(p) : stdoutBuffer[i].wasSkippedBy # Undefined}

----------------------------------------------------------------------------
(* C1 *)

\* C1: when actions returns, the results hold exactly one record per selected work
\* item: as many records as work items, and no project in two records.
C1_OneRecordPerWorkItem ==
    pc = "done" =>
        /\ Len(stdoutBuffer) = Len(selected)
        /\ \A p \in Projects : Cardinality(RecordsOf(p)) <= 1

----------------------------------------------------------------------------
(* C2 *)

\* C2: the Action Invoker is called at most once per (project, action, group) key; a
\* call of the wrapper for a key that already began only yields the duplicate record:
\* it has no invocation, frees or skips no item and launches nothing.
C2_InvokedOncePerKey ==
    /\ \A t, u \in Invocations(tasks) : tasks[t].keys = tasks[u].keys => t = u
    /\ \A t \in DOMAIN tasks :
         tasks[t].state = "dup" =>
            /\ \E u \in Invocations(tasks) : u < t /\ tasks[u].keys = tasks[t].keys
            /\ Children(tasks, t) = {}
            /\ Output(tasks, t) = <<DuplicateRecord(tasks[t].keys)>>

\* a key was launched a second time
C2_Witness == \E t \in DOMAIN tasks : tasks[t].state = "dup"

----------------------------------------------------------------------------
(* C3 *)

\* B is a work item that needs A, and an invocation of A ended unsuccessfully
NeedsFailed(A, B) ==
    /\ B \in SelectedProjects
    /\ A \in SelectedNeeds(B)
    /\ Failed(tasks, A)

\* C3 as stated: if B needs A and the invocation of A ends unsuccessfully, the results
\* hold a record of B with skippedBy = A, and the Action Invoker is never called for B.
C3_SkippedByTheFailedNeed ==
    \A A, B \in Projects :
        NeedsFailed(A, B) =>
            /\ InvocationsOf(tasks, B) = {}
            /\ pc = "done" => \E i \in SkipRecordsOf(B) : stdoutBuffer[i].wasSkippedBy = <<A>>

\* C3 as amended: if B needs A and the invocation of A ends unsuccessfully, the Action
\* Invoker is never called for B, and the results hold a skip record of B whose
\* skippedBy is A or another project of the needs of B that failed or was skipped.
C3_SkippedByAFailedNeed ==
    \A A, B \in Projects :
        NeedsFailed(A, B) =>
            /\ InvocationsOf(tasks, B) = {}
            /\ pc = "done" =>
                 \E i \in SkipRecordsOf(B) :
                    LET by == stdoutBuffer[i].wasSkippedBy[1] IN
                    /\ by \in SelectedNeeds(B)
                    /\ Failed(tasks, by) \/ SkipRecordsOf(by) # {}

\* a run ended in which B needs A, A failed, and no record of B names A
C3_Witness ==
    /\ pc = "done"
    /\ \E A, B \in Projects :
         /\ NeedsFailed(A, B)
         /\ \A i \in SkipRecordsOf(B) : stdoutBuffer[i].wasSkippedBy # <<A>>

----------------------------------------------------------------------------
(* C4 *)

C4_Step ==
    /\ \A t \in Invocations(tasks') \ Invocations(tasks) :
         LET p == tasks'[t].keys.project IN
         /\ Len(NeedsOf(projectsToRunActionIn', p)) = 0
         /\ \A q \in Range(NeedsOf(selected', p)) : Succeeded(tasks', q)
    /\ pc = "running" =>
         \A i \in DOMAIN projectsToRunActionIn :
            \A q \in Range(projectsToRunActionIn[i].needs) \ Range(projectsToRunActionIn'[i].needs) :
               \E t \in DOMAIN tasks :
                  /\ tasks[t].keys.project = q
                  /\ tasks[t].state = "running"
                  /\ tasks'[t].state = "done"
                  /\ tasks'[t].exitCode = <<0>>

\* C4: the Action Invoker is called for a work item only when its needs list is empty,
\* a project leaves a needs list only in the step in which its invocation completed
\* with exit code 0, and so every project of the selected needs of a launched item
\* succeeded before.
C4_LaunchedAfterNeedsSucceeded == [][C4_Step]_vars

\* an item selected with needs was invoked
C4_Witness ==
    \E t \in Invocations(tasks) :
        /\ SelectedNeeds(tasks[t].keys.project) # {}
        /\ tasks[t].parent # 0

----------------------------------------------------------------------------
(* C5 *)

IsAscending(s) == \A i, j \in DOMAIN s : i < j => s[i] < s[j]

\* C5: the passes go through the distinct priorities in ascending order, whatever the
\* order of the selected list: of two items selected without needs, the one of the
\* lower priority is launched before the one of the higher priority.
C5_AscendingPriorityOrder ==
    /\ IsAscending(uniquePriorities)
    /\ \A x, y \in SelectedProjects :
         (/\ SelectedNeeds(x) = {}
          /\ SelectedNeeds(y) = {}
          /\ SelectedPriority(y) < SelectedPriority(x)
          /\ InvocationsOf(tasks, x) # {}) => InvocationsOf(tasks, y) # {}

----------------------------------------------------------------------------
(* C6 *)

\* the calls made in this step by the loop of actions
LoopCalls == {t \in DOMAIN tasks' \ DOMAIN tasks : tasks'[t].parent = 0}

C6_Step ==
    LoopCalls # {} => \A u \in DOMAIN tasks : tasks[u].state # "running"

\* C6: the loop launches no work item of the next pass while an invocation started in
\* the current pass, by the loop or by fan-out, has not returned.
C6_PassIsABarrier == [][C6_Step]_vars

\* a pass after the first launched an item, and an earlier pass had fanned out
C6_Witness ==
    \E t, u \in DOMAIN tasks :
        /\ tasks[t].parent = 0
        /\ tasks[u].parent # 0
        /\ tasks[u].state = "done"
        /\ tasks[u].pass < tasks[t].pass

----------------------------------------------------------------------------
(* C7 *)

\* the items whose needs list becomes empty in this step
FreedNow ==
    {i \in DOMAIN projectsToRunActionIn :
        /\ Len(projectsToRunActionIn[i].needs) > 0
        /\ Len(projectsToRunActionIn'[i].needs) = 0}

C7_Step ==
    pc = "running" =>
        \A i \in FreedNow :
            \E t \in Invocations(tasks') \ DOMAIN tasks :
                /\ tasks'[t].keys.project = projectsToRunActionIn[i].project
                /\ tasks'[t].pass = pass
                /\ pass' = pass
                /\ tasks[tasks'[t].parent].state = "running"
                /\ tasks'[tasks'[t].parent].exitCode = <<0>>

\* C7: when an invocation completes successfully, every blocked item whose needs list
\* thereby becomes empty is invoked in that same step, in the current pass, whatever
\* its own priority is.
C7_FreedItemsLaunchedAtOnce == [][C7_Step]_vars

\* one completion freed two items, and both are invoked
C7_Witness ==
    \E t, u \in Invocations(tasks) :
        /\ t # u
        /\ tasks[t].parent # 0
        /\ tasks[t].parent = tasks[u].parent

----------------------------------------------------------------------------
(* C8 *)

\* the pass of the loop that handles the priority of project p
PassOfProject(p) ==
    CHOOSE k \in DOMAIN uniquePriorities' : uniquePriorities'[k] = OrZero(selected'[ItemIdx(selected', p)].priority)

\* the invocations started in this step of items whose own pass has not begun
EarlyInvocations ==
    {t \in Invocations(tasks') \ DOMAIN tasks : PassOfProject(tasks'[t].keys.project) > pass'}

\* C8 as stated: an item of a later pass whose needs all finished during an earlier
\* pass is not invoked during that earlier pass.
C8_NotInvokedBeforeOwnPass == [][EarlyInvocations = {}]_vars

C8_Step ==
    \A t \in EarlyInvocations :
        /\ tasks'[t].parent # 0
        /\ tasks'[tasks'[t].parent].exitCode = <<0>>
        /\ ItemIdx(projectsToRunActionIn, tasks'[t].keys.project) \in FreedNow

\* C8 as amended: an item of a later pass is invoked during an earlier pass only by
\* fan-out, in the step in which the successful completion of a needed project empties
\* its needs list; the loop itself invokes no item before the pass of its priority.
C8_EarlyOnlyByFanOut == [][C8_Step]_vars

\* an item was invoked by fan-out in a pass before the pass of its priority
C8_Witness ==
    \E t \in Invocations(tasks) :
        /\ tasks[t].parent # 0
        /\ \E k \in DOMAIN uniquePriorities :
             /\ uniquePriorities[k] = SelectedPriority(tasks[t].keys.project)
             /\ k > tasks[t].pass

----------------------------------------------------------------------------
(* C9 *)

\* the skip records made so far, returned or not yet
SkipRecordsMade == UNION {Range(tasks[t].removed) : t \in DOMAIN tasks}

SkippedSoFar(p) == \E r \in SkipRecordsMade : r.project = p

\* C9: every skip record names a project of the needs of the skipped item that itself
\* failed or was skipped; in a chain C needs B, B needs A in which A fails, the record of
\* B names A and the record of C names B, not A.
C9_SkipNamesImmediateUpstream ==
    /\ \A r \in SkipRecordsMade :
         LET by == r.wasSkippedBy[1] IN
         /\ by \in Range(NeedsOf(projectsToRunActionIn, r.project))
         /\ Failed(tasks, by) \/ SkippedSoFar(by)
    /\ \A A, B, C \in SelectedProjects :
         (/\ SelectedNeeds(B) = {A}
          /\ SelectedNeeds(C) = {B}
          /\ Failed(tasks, A)) =>
             /\ \E r \in SkipRecordsMade : r.project = B /\ r.wasSkippedBy = <<A>>
             /\ \E r \in SkipRecordsMade : r.project = C /\ r.wasSkippedBy = <<B>>
             /\ \A r \in SkipRecordsMade : r.project = C => r.wasSkippedBy # <<A>>

\* the head of a chain of three failed, and the run returned its records
C9_Witness ==
    /\ pc = "done"
    /\ \E A, B, C \in SelectedProjects :
         /\ SelectedNeeds(B) = {A}
         /\ SelectedNeeds(C) = {B}
         /\ Failed(tasks, A)
         /\ \E i \in SkipRecordsOf(C) : stdoutBuffer[i].wasSkippedBy = <<B>>

----------------------------------------------------------------------------
(* C10 *)

\* A needs B, B needs C, B defines only the wildcard group, A and C define the requested
\* group, and the requested group is selected for A
FallbackChain(A, B, C) ==
    /\ pc # "start"
    /\ groupToRun # Star
    /\ projectsToRun = {A}
    /\ config[A].needs = <<B>>
    /\ config[B].needs = <<C>>
    /\ config[B].groups = {Star}
    /\ groupToRun \in config[A].groups
    /\ groupToRun \in config[C].groups

\* C10 as stated: selection returns A with needs exactly {C}, and B is not among the
\* work items of the run.
C10_FallbackExcluded ==
    \A A, B, C \in Projects :
        FallbackChain(A, B, C) =>
            /\ NeedsOf(selected, A) = <<C>>
            /\ B \notin SelectedProjects

\* C10 as amended: selection returns A with needs exactly {C}; B stays among the work
\* items, bound to the wildcard group with its own needs {C}, and no work item needs B.
C10_FallbackRewired ==
    \A A, B, C \in Projects :
        FallbackChain(A, B, C) =>
            /\ NeedsOf(selected, A) = <<C>>
            /\ SelectedProjects = {A, B, C}
            /\ selected[ItemIdx(selected, B)].group = Star
            /\ NeedsOf(selected, B) = <<C>>
            /\ \A p \in SelectedProjects : B \notin SelectedNeeds(p)

\* the chain was selected
C10_Witness == \E A, B, C \in Projects : FallbackChain(A, B, C)

----------------------------------------------------------------------------
(* C11 *)

\* p needs q through one or more needs edges of the selected work items
RECURSIVE NeedsTransitively(_, _, _)
NeedsTransitively(p, q, n) ==
    /\ n > 0
    /\ p \in SelectedProjects
    /\ \E m \in SelectedNeeds(p) : m = q \/ NeedsTransitively(m, q, n - 1)

DependsOnAFailure(p) ==
    \E q \in Projects : Failed(tasks, q) /\ NeedsTransitively(p, q, Cardinality(Projects))

IsExecuted(r) == r.wasSkippedBy = Undefined /\ ~r.wasSkippedDuplicated

\* C11: a failed invocation does not stop the run: while it runs, an invocation is in
\* flight or the pass can end, and when it returns every work item that does not
\* transitively need a failed project was invoked and has an executed record.
C11_FailureLeavesUnrelatedWork ==
    /\ pc = "running" =>
         (\E t \in DOMAIN tasks : tasks[t].state = "running") \/ PassSettled(tasks, pass)
    /\ pc = "done" =>
         \A p \in SelectedProjects :
            ~DependsOnAFailure(p) =>
               /\ InvocationsOf(tasks, p) # {}
               /\ \E i \in RecordsOf(p) : IsExecuted(stdoutBuffer[i])

\* a project failed, and an item that does not need it was invoked in a later pass
C11_Witness ==
    /\ pc = "done"
    /\ \E q, p \in SelectedProjects :
         /\ Failed(tasks, q)
         /\ ~DependsOnAFailure(p)
         /\ ~Failed(tasks, p)
         /\ \E t \in InvocationsOf(tasks, q), u \in InvocationsOf(tasks, p) :
              tasks[t].pass < tasks[u].pass

----------------------------------------------------------------------------
(* C12 *)

\* the priority of the action of project p if set, else the priority of the project if
\* set, else 0
EffectivePriority(p) ==
    IF config[p].priority # Undefined THEN config[p].priority[1]
    ELSE OrZero(projectPriority[p])

\* the calls the for loop of actions made for project p
LoopCallsOf(p) == {t \in InvocationsOf(tasks, p) : tasks[t].parent = 0}

\* C12: every selected work item, matched directly or pulled in by the closure, has
\* the effective priority of its own project and action (the action's priority, else
\* the project's, else 0), and the loop invokes it only in the pass of that priority.
C12_ScheduledInEffectiveTier ==
    pc # "start" =>
        \A i \in DOMAIN selected :
            /\ OrZero(selected[i].priority) = EffectivePriority(selected[i].project)
            /\ \A t \in LoopCallsOf(selected[i].project) :
                  uniquePriorities[tasks[t].pass] = EffectivePriority(selected[i].project)

----------------------------------------------------------------------------
(* C13 *)

\* the work items in the order the closure discovers them: the direct matches in
\* configuration order, each followed by the items its needs lead to
Discovered == ResolveAll(config, DirectMatches(config, groupToRun, projectsToRun, 1), 1)

FirstDiscovered(p) ==
    Discovered[CHOOSE j \in DOMAIN Discovered :
                  /\ Discovered[j].project = p
                  /\ \A k \in 1..(j - 1) : Discovered[k].project # p]

\* C13: selection returns at most one work item per project, and the item kept for a
\* project has the priority of the first item discovered for that project, the group
\* bound for that project and, where no need of it is rewired, its needs.
C13_FirstDiscoveredKept ==
    pc # "start" =>
        /\ \A i, j \in DOMAIN selected : selected[i].project = selected[j].project => i = j
        /\ \A i \in DOMAIN selected :
              LET f == FirstDiscovered(selected[i].project) IN
              /\ selected[i].priority = f.priority
              /\ selected[i].group = (IF groupToRun \in f.groups THEN groupToRun ELSE Star)
              /\ (\A n \in Range(f.needs) : groupToRun \in config[n].groups)
                     => selected[i].needs = f.needs

\* a project matched directly and discovered earlier through a need, with another priority
C13_Witness ==
    /\ pc # "start"
    /\ \E j, k \in DOMAIN Discovered :
          /\ j < k
          /\ Discovered[j].project = Discovered[k].project
          /\ Discovered[j].priority # Discovered[k].priority
          /\ Discovered[k].priority = config[Discovered[k].project].priority
          /\ Discovered[k].project \in projectsToRun
          /\ Discovered[k].project \in SelectedProjects

----------------------------------------------------------------------------
(* C14 *)

\* the projects the closure reaches from the names of projectsToRun
RECURSIVE ReachedNames(_, _)
ReachedNames(S, n) ==
    IF n = 0 THEN S
    ELSE ReachedNames(S \cup UNION {Range(config[p].needs) : p \in S \cap Projects}, n - 1)

\* the names of projectsToRun and of the needs reached from them that are not declared
\* or do not have the action
InvalidNames ==
    {n \in ReachedNames(projectsToRun, Cardinality(Projects)) : n \notin Projects \/ n \notin declared}

\* C14: when projectsToRun or a needs entry reached by the closure names a project
\* that is not declared or does not have the action, selection throws before any
\* command is spawned and returns no work items.
C14_InvalidNameFails ==
    (pc # "start" /\ InvalidNames # {}) => (pc = "threw" /\ tasks = <<>> /\ selected = <<>>)

----------------------------------------------------------------------------
(* C15 *)

----------------------------------------------------------------------------
(* C16 *)

\* C16: every name in the needs of a selected work item is the project of a selected
\* work item bound to the requested group; no item bound to the wildcard in a run of
\* another group is needed by an item, and its failure skips nothing.
C16_NeedsNameSelectedItemsOfTheGroup ==
    /\ pc # "start" =>
          \A i \in DOMAIN selected :
              \A n \in Range(selected[i].needs) :
                  /\ n \in SelectedProjects
                  /\ selected[ItemIdx(selected, n)].group = groupToRun
    /\ \A t \in DOMAIN tasks :
          (/\ groupToRun # Star
           /\ selected[ItemIdx(selected, tasks[t].keys.project)].group = Star)
              => tasks[t].removed = <<>>

\* an item bound to the wildcard, whose needs went to the item that needed it, failed
C16_Witness ==
    /\ groupToRun # Star
    /\ \E i, j \in DOMAIN selected :
          /\ selected[j].group = Star
          /\ selected[j].project \in Range(config[selected[i].project].needs)
          /\ config[selected[j].project].needs # <<>>
          /\ Range(config[selected[j].project].needs) \subseteq Range(selected[i].needs)
          /\ Failed(tasks, selected[j].project)

----------------------------------------------------------------------------
(* C17 *)

\* C17: when every invocation returns, actions returns, and then every selected work
\* item has at least one record, whatever the priorities of the items and their needs.
C17_ReturnsWithARecordOfEachItem ==
    <>(pc = "done" /\ \A p \in SelectedProjects : RecordsOf(p) # {})

\* the run returned, with a record of an item whose need is of a later priority
C17_Witness ==
    /\ pc = "done"
    /\ \E p, q \in SelectedProjects :
          /\ q \in SelectedNeeds(p)
          /\ SelectedPriority(p) < SelectedPriority(q)
          /\ RecordsOf(p) # {}

----------------------------------------------------------------------------
(* C18 *)

----------------------------------------------------------------------------
(* C19 *)

\* the calls of runAction for project p that spawned its command
SpawnedCalls(p) ==
    {t \in DOMAIN tasks : tasks[t].keys.project = p /\ tasks[t].state \in {"running", "done"}}

\* a step of runActions goes from the minimum of the range up by one while no command
\* of the iteration before runs, and leaves every command spawned in the iteration of
\* the priority of its project, for a project with the action and the requested group,
\* once per project, with one record at most
C19_Step ==
    /\ currentPrio' # currentPrio =>
          \/ pc = "start" /\ currentPrio' = prioRange'.min
          \/ pc = "running" /\ currentPrio' = currentPrio + 1
    /\ Len(tasks') > Len(tasks) => \A t \in DOMAIN tasks : tasks[t].state # "running"
    /\ pc = "start" => currentPrio' = prioRange'.min
    /\ pc' = "running" => (prioRange'.min <= currentPrio' /\ currentPrio' <= prioRange'.max)
    /\ \A p \in Projects :
          /\ \A t \in SpawnedCalls(p)' :
                /\ tasks'[t].currentPrio = EffectivePriority(p)
                /\ p \in declared
                /\ groupToRun \in config[p].groups
          /\ Cardinality(SpawnedCalls(p)') <= 1
          /\ Cardinality(RecordsOf(p)') <= 1

\* C19: runActions visits the priorities of the range one by one in ascending order,
\* each after the commands of the one before ended, and spawns the command of a
\* project only in the iteration of action.priority ?? project.priority ?? 0 and only
\* if the project has the action and the requested group itself: at most one spawn
\* and one record per project.
C19_SweepSpawnsOncePerProject == [][C19_Step]_vars

\* the sweep returned records of two iterations and spawned nothing for a project
\* that only has the wildcard group
C19_Witness ==
    /\ pc = "done"
    /\ groupToRun # Star
    /\ \E p, q \in Projects :
          /\ RecordsOf(p) # {} /\ RecordsOf(q) # {}
          /\ \E t \in SpawnedCalls(p), u \in SpawnedCalls(q) :
                tasks[t].currentPrio < tasks[u].currentPrio
    /\ \E p \in declared : config[p].groups = {Star} /\ SpawnedCalls(p) = {}

====
